---- MODULE Spec2Model ----
(***************************************************************************)
(* Model of extract_screens.py: the detection of screen boundaries in a    *)
(* composite image (detect_screen_boundaries), the aspect-ratio fallback   *)
(* (detect_screens_by_aspect_ratio), the splitting of wide screens         *)
(* (split_wide_screen) and the pipeline that runs them and pads the        *)
(* result (extract_screens_from_image).                                    *)
(*                                                                         *)
(* Columns and rows are numbered from 0 as in the source.  A span is the   *)
(* tuple <<x1, y1, x2, y2>>.  A region <<rx, ry, rw, rh>> is the numpy     *)
(* slice img_array[ry:ry+rh, rx:rx+rw].  The program is sequential; pc is  *)
(* its position, and a call of detect_screen_boundaries runs on the        *)
(* region reg, for the pipeline (wide = <<>>) or for split_wide_screen     *)
(* (wide = the span being split).                                          *)
(***************************************************************************)
EXTENDS Integers, Sequences, FiniteSets, TLC

VARIABLES img, pc, reg, min_screen_width, is_gap, is_gap_smoothed,
          screen_starts, screen_ends, detected, wide,
          screens, idx, sub_screens, final_screens, crops

vars == <<img, pc, reg, min_screen_width, is_gap, is_gap_smoothed,
          screen_starts, screen_ends, detected, wide,
          screens, idx, sub_screens, final_screens, crops>>

\* the locals of the running call of detect_screen_boundaries
callVars == <<is_gap, is_gap_smoothed, screen_starts, screen_ends, detected>>

\* the locals of extract_screens_from_image
pipeVars == <<screens, idx, sub_screens, final_screens, crops>>

-----------------------------------------------------------------------------
(* Arithmetic helpers                                                      *)

Max(a, b) == IF a >= b THEN a ELSE b

Min(a, b) == IF a <= b THEN a ELSE b

Abs(a) == IF a >= 0 THEN a ELSE -a

\* math.ceil(a / b) for a >= 0, b > 0
CeilDiv(a, b) == (a + b - 1) \div b

\* np.round(a / b) for a >= 0, b > 0: to the nearest integer, halves to even
RoundHalfEven(a, b) ==
    LET q == a \div b
        r == a % b
    IN  IF 2 * r < b THEN q
        ELSE IF 2 * r > b THEN q + 1
        ELSE IF q % 2 = 0 THEN q ELSE q + 1

\* number of even integers in lo..hi (lo >= 0)
CountEven(lo, hi) == IF hi < lo THEN 0 ELSE (hi \div 2) - ((lo - 1) \div 2)

\* number of integers of parity p in lo..hi
CountParity(lo, hi, p) ==
    IF hi < lo THEN 0
    ELSE IF p = 0 THEN CountEven(lo, hi) ELSE (hi - lo + 1) - CountEven(lo, hi)

\* sign of (population variance - t) for n > 0 samples of sum s1 and sum of
\* squares s2, i.e. of n*s2 - s1^2 - t*n^2, computed without leaving 32 bits
VarianceCmp(n, s1, s2, t) ==
    LET q == s1 \div n
        r == s1 % n
        a == s2 - n * q * q - 2 * q * r - t * n
    IN  IF a <= 0 THEN (IF a = 0 /\ r = 0 THEN 0 ELSE -1)
        ELSE IF a >= n THEN 1
        ELSE IF n * a > r * r THEN 1
        ELSE IF n * a = r * r THEN 0 ELSE -1

SeqToSet(s) == {s[i] : i \in 1..Len(s)}

RECURSIVE SumWidths(_, _)
\* total width of the first k blocks
SumWidths(blocks, k) == IF k = 0 THEN 0 ELSE SumWidths(blocks, k - 1) + blocks[k].w

-----------------------------------------------------------------------------
(* The pixel buffer.  An image is [w, h, blocks]: side by side column      *)
(* blocks [w, kind, top, bot].  Kinds: "white" (255), "black" (0), "grey"  *)
(* (128) are uniform; "checker" and "stripes" hold content in the rows     *)
(* top..bot and white outside them.                                        *)

Palette == [white |-> 255, black |-> 0, grey |-> 128, dark |-> 40, light |-> 200]

White == Palette.white

Black == Palette.black

Grey == Palette.grey

Dark == Palette.dark

Light == Palette.light

\* the gray value of pixel (x, y) of a block of the given kind
Pixel(b, x, y) ==
    CASE b.kind = "white" -> White
      [] b.kind = "black" -> Black
      [] b.kind = "grey" -> Grey
      [] b.kind = "checker" ->
            IF y < b.top \/ y > b.bot THEN White
            ELSE IF (x + y) % 2 = 0 THEN Dark ELSE Light
      [] b.kind = "stripes" ->
            IF y < b.top \/ y > b.bot THEN White
            ELSE IF y % 2 = 0 THEN Dark ELSE Light

\* index of the block holding column x
BlockAt(im, x) ==
    CHOOSE k \in 1..Len(im.blocks) :
        SumWidths(im.blocks, k - 1) <= x /\ x < SumWidths(im.blocks, k)

\* <<number of dark pixels, number of light pixels>> of column x in rows ya..yb
ColumnCounts(b, x, ya, yb) ==
    LET lo == Max(ya, b.top)
        hi == Min(yb, b.bot)
    IN  CASE b.kind = "checker" ->
                <<CountParity(lo, hi, x % 2), CountParity(lo, hi, 1 - (x % 2))>>
          [] b.kind = "stripes" ->
                <<CountParity(lo, hi, 0), CountParity(lo, hi, 1)>>
          [] OTHER -> <<0, 0>>

\* the uniform value of a block outside its content rows
Background(b) ==
    CASE b.kind = "black" -> Black
      [] b.kind = "grey" -> Grey
      [] OTHER -> White

\* <<sum, sum of squares>> of the pixels of column x in rows ya..yb
ColumnSums(b, x, ya, yb) ==
    LET c == ColumnCounts(b, x, ya, yb)
        n == Max(0, yb - ya + 1)
        bg == Background(b)
        rest == n - c[1] - c[2]
    IN  <<c[1] * Dark + c[2] * Light + rest * bg,
          c[1] * Dark * Dark + c[2] * Light * Light + rest * bg * bg>>

\* <<number of dark pixels, number of light pixels>> of row y in the columns
\* lo..hi of one block
RowCounts(b, y, lo, hi) ==
    IF y < b.top \/ y > b.bot THEN <<0, 0>>
    ELSE CASE b.kind = "checker" ->
                <<CountParity(lo, hi, y % 2), CountParity(lo, hi, 1 - (y % 2))>>
           [] b.kind = "stripes" ->
                IF y % 2 = 0 THEN <<Max(0, hi - lo + 1), 0>>
                             ELSE <<0, Max(0, hi - lo + 1)>>
           [] OTHER -> <<0, 0>>

RECURSIVE RowSums(_, _, _, _, _)
\* <<sum, sum of squares>> of the pixels of row y in columns xa..xb, over the
\* blocks k..Len(blocks)
RowSums(im, y, xa, xb, k) ==
    IF k > Len(im.blocks) THEN <<0, 0>>
    ELSE LET b == im.blocks[k]
             lo == Max(xa, SumWidths(im.blocks, k - 1))
             hi == Min(xb, SumWidths(im.blocks, k) - 1)
             n == Max(0, hi - lo + 1)
             c == RowCounts(b, y, lo, hi)
             bg == Background(b)
             rest == n - c[1] - c[2]
             tail == RowSums(im, y, xa, xb, k + 1)
         IN  <<c[1] * Dark + c[2] * Light + rest * bg + tail[1],
               c[1] * Dark * Dark + c[2] * Light * Light + rest * bg * bg + tail[2]>>


-----------------------------------------------------------------------------
(* detect_screen_boundaries: the column profile and the gap mask           *)

StdThreshold == 5

WhiteThreshold == 240

DarkThreshold == 15

FilterSize == 10

\* is_gap of the region's column x (0-based in the region): column_std < 5,
\* column_means > 240 or column_means < 15 over the region's rows.  On an
\* empty column (rh = 0) numpy's mean and std are nan and all three
\* comparisons are false.
ColumnIsGap(im, r, x) ==
    /\ r[4] > 0
    /\ \E s \in {ColumnSums(im.blocks[BlockAt(im, r[1] + x)], r[1] + x,
                            r[2], r[2] + r[4] - 1)} :
          \/ VarianceCmp(r[4], s[1], s[2], StdThreshold * StdThreshold) < 0
          \/ s[1] > WhiteThreshold * r[4]
          \/ s[1] < DarkThreshold * r[4]

\* the raw gap mask of the region, a function on 0..rw-1 (lines 34-43)
GapMask(im, r) == [x \in 0..(r[3] - 1) |-> ColumnIsGap(im, r, x)]

\* index j of a line of length n extended by scipy's mode 'reflect'
\* (d c b a | a b c d | d c b a)
Reflect(j, n) ==
    IF j % (2 * n) < n THEN j % (2 * n) ELSE 2 * n - 1 - (j % (2 * n))

\* number of gap columns in the window of uniform_filter1d(size=10) centred
\* on column x: the columns x - 5 .. x + 4 of the reflected line
WindowCount(g, n, x) ==
    Cardinality({d \in 0..(FilterSize - 1) :
                    g[Reflect(x - (FilterSize \div 2) + d, n)]})

\* the smoothing with the comparison >= 0.8 in place of > 0.8
SmoothAtLeast(g, n) ==
    [x \in 0..(n - 1) |-> 10 * WindowCount(g, n, x) >= 8 * FilterSize]

\* uniform_filter1d(is_gap.astype(float), size=10) > 0.8 (line 48): the
\* window's mean count / 10 exceeds 8 / 10
Smooth(g, n) ==
    [x \in 0..(n - 1) |-> 10 * WindowCount(g, n, x) > 8 * FilterSize]

-----------------------------------------------------------------------------
(* detect_screen_boundaries: transitions, edges, pairing                   *)

\* the elements of a finite set of integers in increasing order
Sorted(S) ==
    [k \in 1..Cardinality(S) |->
        CHOOSE a \in S : Cardinality({b \in S : b < a}) = k - 1]

\* np.diff(m.astype(int)) at index i of a mask (0 <= i <= n-2)
Diff(m, i) == (IF m[i + 1] THEN 1 ELSE 0) - (IF m[i] THEN 1 ELSE 0)

\* np.where(np.diff(m.astype(int)) == d)[0] + off, in increasing order
Where(m, n, d, off) ==
    \* the set is bound once, then sorted
    CHOOSE s \in {Sorted(S) : S \in {{i + off : i \in {j \in 0..(n - 2) : Diff(m, j) = d}}}} : TRUE

\* screen_starts without the + 1 of line 58
RawStartsNoShift(m, n) == Where(m, n, -1, 0)

\* screen_starts before the edge handling (line 58)
RawStarts(m, n) == Where(m, n, -1, 1)

\* screen_ends before the edge handling (line 59)
RawEnds(m, n) == Where(m, n, 1, 0)

\* screen_starts after the edge handling (lines 66-69)
Starts(m, n) ==
    IF ~m[0] THEN <<0>> \o RawStarts(m, n) ELSE RawStarts(m, n)

\* screen_ends without the implicit end at the last column
EndsNoEdge(m, n) == RawEnds(m, n)

\* screen_ends after the edge handling (lines 71-74)
Ends(m, n) ==
    IF ~m[n - 1] THEN RawEnds(m, n) \o <<n - 1>> ELSE RawEnds(m, n)

\* is_content_row of the region's row y over the region's columns
\* start..end-1: row_std > 5 (lines 81-86)
RowIsContent(im, r, start, end, y) ==
    /\ end > start
    /\ \E s \in {RowSums(im, r[2] + y, r[1] + start, r[1] + end - 1, 1)} :
          VarianceCmp(end - start, s[1], s[2], StdThreshold * StdThreshold) > 0

\* len(content_rows) > 0
HasContentRows(im, r, start, end) ==
    \E y \in 0..(r[4] - 1) : RowIsContent(im, r, start, end, y)

\* content_rows[0]
FirstContentRow(im, r, start, end) ==
    CHOOSE y \in 0..(r[4] - 1) : RowIsContent(im, r, start, end, y)

\* content_rows[-1]
LastContentRow(im, r, start, end) ==
    CHOOSE y \in 0..(r[4] - 1) :
        /\ RowIsContent(im, r, start, end, y)
        /\ \A z \in (y + 1)..(r[4] - 1) : ~RowIsContent(im, r, start, end, z)

\* the body of the pairing loop (lines 79-92) for one (start, end): the
\* spans it appends, none or one
PairScreens(im, r, start, end, min_w) ==
    IF end - start >= min_w /\ HasContentRows(im, r, start, end)
    THEN <<<<start, Max(0, FirstContentRow(im, r, start, end) - 2),
             end, Min(r[4] - 1, LastContentRow(im, r, start, end) + 2)>>>>
    ELSE <<>>

RECURSIVE ZipScreens(_, _, _, _, _, _)
\* for start, end in zip(screen_starts, screen_ends), from the k-th pair on
ZipScreens(im, r, starts, ends, min_w, k) ==
    IF k > Min(Len(starts), Len(ends)) THEN <<>>
    ELSE PairScreens(im, r, starts[k], ends[k], min_w)
            \o ZipScreens(im, r, starts, ends, min_w, k + 1)

-----------------------------------------------------------------------------
(* detect_screens_by_aspect_ratio                                          *)

\* aspect_ratios (line 117) as fractions: 9/19.5 = 18/39
aspect_ratios == << <<18, 39>>, <<9, 16>>, <<10, 16>>, <<3, 4>> >>

\* int(height * aspect_ratio)
EstimatedWidth(height, ratio) == (height * ratio[1]) \div ratio[2]

\* width // estimated_screen_width
NumScreens(width, est) == width \div est

\* slice i of a partition of the width into num equal parts
RatioSliceEqual(i, width, height, est, num) ==
    <<(i * width) \div num + (IF i > 0 THEN 10 ELSE 0),
      0,
      ((i + 1) * width) \div num - (IF i < num - 1 THEN 10 ELSE 0),
      height - 1>>

\* the slice i (0-based) of the loop of lines 128-139, before its width check
RatioSlice(i, width, height, est, num) ==
    <<i * est + (IF i > 0 THEN 10 ELSE 0),
      0,
      Min((i + 1) * est, width) - (IF i < num - 1 THEN 10 ELSE 0),
      height - 1>>

\* the slices a ratio appends to screens: those at least min_w wide
RatioSlices(width, height, est, num, min_w) ==
    SelectSeq([j \in 1..num |-> RatioSlice(j - 1, width, height, est, num)],
              LAMBDA sp : sp[3] - sp[1] >= min_w)

\* the slices of ratio k
SlicesOf(width, height, k, min_w) ==
    RatioSlices(width, height, EstimatedWidth(height, aspect_ratios[k]),
                NumScreens(width, EstimatedWidth(height, aspect_ratios[k])),
                min_w)

\* whether ratio k passes both tests of lines 124 and 127
RatioQualifies(width, height, k, min_w) ==
    /\ EstimatedWidth(height, aspect_ratios[k]) >= min_w
    /\ NumScreens(width, EstimatedWidth(height, aspect_ratios[k])) >= 2

\* the loop stopping at the first ratio that passes both tests
RatioBreaksOnQualify(width, height, k, min_w) ==
    RatioQualifies(width, height, k, min_w)

\* whether the loop over the ratios stops at ratio k: len(screens) > 0
RatioBreaks(width, height, k, min_w) ==
    /\ RatioQualifies(width, height, k, min_w)
    /\ SlicesOf(width, height, k, min_w) # <<>>

RECURSIVE RatioLoop(_, _, _, _)
\* the loop of lines 121-142 from ratio k on: screens when the loop ends
RatioLoop(width, height, min_w, k) ==
    IF k > Len(aspect_ratios) THEN <<>>
    ELSE IF RatioBreaks(width, height, k, min_w)
         THEN SlicesOf(width, height, k, min_w)
         ELSE RatioLoop(width, height, min_w, k + 1)

\* the span covering the entire image (line 146)
WholeImage(width, height) == <<0, 0, width - 1, height - 1>>

\* the fallback without the whole-image span of lines 145-146
RatioLoopOnly(width, height, min_w) == RatioLoop(width, height, min_w, 1)

detect_screens_by_aspect_ratio(width, height, min_w) ==
    IF RatioLoop(width, height, min_w, 1) = <<>>
    THEN <<WholeImage(width, height)>>
    ELSE RatioLoop(width, height, min_w, 1)

-----------------------------------------------------------------------------
(* split_wide_screen                                                       *)

MaxWidth == 450

DefaultMinScreenWidth == 300

ForceWidth == 1000

TypicalWidth == 380

MinSliceWidth == 300

Tolerance == 50

Padding == 2

\* slice i (0-based) of num even slices of the span, the inner edges moved
\* in by shrink (lines 179-186 and 236-243)
EvenSlice(sp, i, num, shrink) ==
    <<sp[1] + ((i * (sp[3] - sp[1])) \div num) + (IF i > 0 THEN shrink ELSE 0),
      sp[2],
      sp[1] + (((i + 1) * (sp[3] - sp[1])) \div num)
            - (IF i < num - 1 THEN shrink ELSE 0),
      sp[4]>>

\* the slices without the width check of lines 188 and 245
EvenSlicesUnfiltered(sp, num, shrink) ==
    [j \in 1..num |-> EvenSlice(sp, j - 1, num, shrink)]

\* the slices kept by the width check of lines 188 and 245
EvenSlices(sp, num, shrink) ==
    SelectSeq([j \in 1..num |-> EvenSlice(sp, j - 1, num, shrink)],
              LAMBDA s : s[3] - s[1] >= MinSliceWidth)

\* num_screens of line 175
ForceCount(width) == Max(2, RoundHalfEven(width, TypicalWidth))

\* the branch width > 1000 (lines 171-191)
ForceSplit(sp) ==
    IF EvenSlices(sp, ForceCount(sp[3] - sp[1]), 8) # <<>>
    THEN EvenSlices(sp, ForceCount(sp[3] - sp[1]), 8)
    ELSE <<sp>>

\* the region img_array[y1:y2, x1:x2] of a span (line 194)
RegionOf(sp) == <<sp[1], sp[2], sp[3] - sp[1], sp[4] - sp[2]>>

\* absolute_screens (lines 200-206): the sub-screens detected in the span's
\* region, moved to absolute coordinates, those 300 to max_width wide
AbsoluteScreens(sp, sub, max_width) ==
    SelectSeq([j \in 1..Len(sub) |->
                  <<sp[1] + sub[j][1], sp[2] + sub[j][2],
                    sp[1] + sub[j][3], sp[2] + sub[j][4]>>],
              LAMBDA s : /\ MinSliceWidth <= s[3] - s[1]
                         /\ s[3] - s[1] <= max_width)

\* estimated_screen_width of lines 220-223
SplitEstimate(height, ratio) ==
    IF EstimatedWidth(height, ratio) < MinSliceWidth
    THEN TypicalWidth
    ELSE EstimatedWidth(height, ratio)

\* num_screens of line 225
SplitCount(width, height, ratio) == CeilDiv(width, SplitEstimate(height, ratio))

\* uniformity of line 229, abs(width / num - est), as the fraction
\* <<numerator, denominator>>
Uniformity(width, height, ratio) ==
    <<Abs(width - SplitEstimate(height, ratio) * SplitCount(width, height, ratio)),
      SplitCount(width, height, ratio)>>

\* u < v for fractions; float('inf') is <<1, 0>>
LessThan(u, v) == u[1] * v[2] < v[1] * u[2]

\* 300 <= avg_width <= max_width + 50 for avg_width = width / num (line 231)
AverageFits(width, num, max_width) ==
    /\ MinSliceWidth * num <= width
    /\ width <= (max_width + Tolerance) * num

RECURSIVE BestSplit(_, _, _, _, _)
\* the loop of lines 219-249 from ratio k on, with the best_uniformity and
\* the best_split so far (<<>> for None)
BestSplit(sp, max_width, k, best_uniformity, best_split) ==
    IF k > 3 THEN best_split
    ELSE LET width == sp[3] - sp[1]
             height == sp[4] - sp[2]
             num_screens == SplitCount(width, height, aspect_ratios[k])
             uniformity == Uniformity(width, height, aspect_ratios[k])
             split_screens == EvenSlices(sp, num_screens, 5)
         IN  IF /\ LessThan(uniformity, best_uniformity)
                /\ AverageFits(width, num_screens, max_width)
             THEN BestSplit(sp, max_width, k + 1, uniformity,
                            IF split_screens # <<>> THEN split_screens
                                                    ELSE best_split)
             ELSE BestSplit(sp, max_width, k + 1, best_uniformity, best_split)

\* lines 212-251: the split by the best fitting ratio, or the span itself
RatioSplit(sp, max_width) ==
    IF BestSplit(sp, max_width, 1, <<1, 0>>, <<>>) # <<>>
    THEN BestSplit(sp, max_width, 1, <<1, 0>>, <<>>)
    ELSE <<sp>>

\* lines 199-251: what split_wide_screen returns for a span 451 to 1000 wide
\* once detect_screen_boundaries has returned sub for the span's region
SplitResult(sp, sub, max_width) ==
    IF Len(AbsoluteScreens(sp, sub, max_width)) >= 2
    THEN AbsoluteScreens(sp, sub, max_width)
    ELSE RatioSplit(sp, max_width)

\* the padding without the clamping to the image's width and height
PadUnclamped(sp, im) ==
    <<Max(0, sp[1] - Padding), Max(0, sp[2] - Padding),
      sp[3] + Padding, sp[4] + Padding>>

\* the padding and clamping of lines 298-302
Pad(sp, im) ==
    <<Max(0, sp[1] - Padding), Max(0, sp[2] - Padding),
      Min(im.w, sp[3] + Padding), Min(im.h, sp[4] + Padding)>>

-----------------------------------------------------------------------------
(* The input images                                                        *)

MaxScreens == 3

\* a block of content of the given kind in the rows inset..h-1-inset
ContentBlock(kind, w, h, inset) ==
    [w |-> w, kind |-> kind,
     top |-> IF h > 2 * inset THEN inset ELSE 0,
     bot |-> IF h > 2 * inset THEN h - 1 - inset ELSE h - 1]

GapBlock(kind, w, h) == [w |-> w, kind |-> kind, top |-> 0, bot |-> h - 1]

RECURSIVE ScreenBlocks(_, _, _, _, _, _)
\* n screens sw wide, a white gap between each two
ScreenBlocks(n, kind, sw, gap, h, inset) ==
    IF n = 0 THEN <<>>
    ELSE IF n = 1 THEN <<ContentBlock(kind, sw, h, inset)>>
    ELSE <<ContentBlock(kind, sw, h, inset), GapBlock("white", gap, h)>>
            \o ScreenBlocks(n - 1, kind, sw, gap, h, inset)

\* an image of the given blocks
ImageOf(blocks, h) ==
    [w |-> SumWidths(blocks, Len(blocks)), h |-> h, blocks |-> blocks]

\* a composite: a left margin, n screens with gaps between them, a right margin
Composite(n, kind, sw, gap, left, right, h, inset) ==
    ImageOf((IF left > 0 THEN <<GapBlock("white", left, h)>> ELSE <<>>)
                \o ScreenBlocks(n, kind, sw, gap, h, inset)
                \o (IF right > 0 THEN <<GapBlock("white", right, h)>> ELSE <<>>),
            h)

\* an image of one uniform block
Uniform(kind, w, h) == ImageOf(<<GapBlock(kind, w, h)>>, h)

ScreenWidths == {320, 350, 470, 600, 940}

GapWidths == {9, 10, 40}

Margins == {0, 35}

Heights == {20, 800}

Composites ==
    {Composite(n, "checker", sw, gap, margin, margin, h, 3) :
        n \in 1..MaxScreens, sw \in ScreenWidths, gap \in GapWidths,
        margin \in Margins, h \in Heights}

Uniforms ==
    {Uniform(kind, d[1], d[2]) :
        kind \in {"white", "black", "grey", "checker", "stripes"},
        d \in {<<1, 1>>, <<100, 40>>, <<460, 1>>, <<1140, 800>>,
               <<1000, 650>>, <<1600, 900>>}}

\* Scenario A: 1200x800, three 350px blocks, two 40px white gaps
ScenarioA == {Composite(3, "checker", 350, 40, left, 70 - left, 800, 0) :
                 left \in {0, 35, 70}}

\* one screen wider than 1000 between two margins
Wides ==
    {Composite(1, "checker", sw, 40, 35, 35, h, 0) :
        sw \in {1001, 1100, 1330, 1600, 1710}, h \in {20, 900}}

\* two screens 320 wide, the gap between them crossed by one content column
Scratched(h) ==
    ImageOf(<<ContentBlock("checker", 320, h, 0), GapBlock("white", 4, h),
              ContentBlock("checker", 1, h, 0), GapBlock("white", 5, h),
              ContentBlock("checker", 320, h, 0)>>, h)

\* a block too narrow for a screen beside a screen
Narrow(h) ==
    ImageOf(<<ContentBlock("checker", 200, h, 0), GapBlock("black", 40, h),
              ContentBlock("checker", 350, h, 5), GapBlock("grey", 40, h)>>, h)

Specials ==
    {Composite(1, "checker", 950, 40, 35, 35, 1012, 0),
     Composite(1, "stripes", 400, 40, 35, 35, 20, 0),
     Scratched(20), Narrow(40)}

Images == Composites \cup Uniforms \cup ScenarioA \cup Wides \cup Specials

-----------------------------------------------------------------------------
(* extract_screens_from_image                                              *)

NoMask == <<>>

NoCall ==
    /\ is_gap = NoMask
    /\ is_gap_smoothed = NoMask
    /\ screen_starts = <<>>
    /\ screen_ends = <<>>
    /\ detected = <<>>

NoPipe ==
    /\ screens = <<>>
    /\ idx = 0
    /\ sub_screens = <<>>
    /\ final_screens = <<>>
    /\ crops = <<>>

\* lines 266-272: the image is loaded and detect_screen_boundaries is
\* called on all of it with the default min_screen_width
Init ==
    /\ img \in Images
    /\ pc = "profile"
    /\ reg = <<0, 0, img.w, img.h>>
    /\ min_screen_width = DefaultMinScreenWidth
    /\ wide = <<>>
    /\ NoCall
    /\ NoPipe

\* lines 24-43: the column statistics and the raw gap mask
Profile ==
    /\ pc = "profile"
    /\ is_gap' = GapMask(img, reg)
    /\ pc' = "smooth"
    /\ UNCHANGED <<img, reg, min_screen_width, wide, is_gap_smoothed,
                   screen_starts, screen_ends, detected, pipeVars>>

\* lines 45-54: the smoothed gap mask
Smoothing ==
    /\ pc = "smooth"
    /\ is_gap_smoothed' = Smooth(is_gap, reg[3])
    /\ pc' = "transitions"
    /\ UNCHANGED <<img, reg, min_screen_width, wide, is_gap,
                   screen_starts, screen_ends, detected, pipeVars>>

\* lines 56-64: no transition at all, the call goes to the fallback
NoTransitions ==
    /\ pc = "transitions"
    /\ RawStarts(is_gap_smoothed, reg[3]) = <<>>
    /\ RawEnds(is_gap_smoothed, reg[3]) = <<>>
    /\ pc' = "fallback"
    /\ UNCHANGED <<img, reg, min_screen_width, wide, callVars, pipeVars>>

\* lines 56-74: the starts and the ends, and their edge handling
Transitions ==
    /\ pc = "transitions"
    /\ \/ RawStarts(is_gap_smoothed, reg[3]) # <<>>
       \/ RawEnds(is_gap_smoothed, reg[3]) # <<>>
    /\ screen_starts' = Starts(is_gap_smoothed, reg[3])
    /\ screen_ends' = Ends(is_gap_smoothed, reg[3])
    /\ pc' = "pair"
    /\ UNCHANGED <<img, reg, min_screen_width, wide, is_gap, is_gap_smoothed,
                   detected, pipeVars>>

\* lines 76-98: the starts and ends are paired, each pair trimmed
\* vertically; with no screen the call goes to the fallback
Pair ==
    /\ pc = "pair"
    /\ \E found \in {ZipScreens(img, reg, screen_starts, screen_ends,
                                min_screen_width, 1)} :
          /\ detected' = found
          /\ pc' = IF found = <<>> THEN "fallback" ELSE "return"
    /\ UNCHANGED <<img, reg, min_screen_width, wide, is_gap, is_gap_smoothed,
                   screen_starts, screen_ends, pipeVars>>

\* lines 64 and 96: return detect_screens_by_aspect_ratio(image_array, ...)
Fallback ==
    /\ pc = "fallback"
    /\ detected' = detect_screens_by_aspect_ratio(reg[3], reg[4],
                                                  min_screen_width)
    /\ pc' = "return"
    /\ UNCHANGED <<img, reg, min_screen_width, wide, is_gap, is_gap_smoothed,
                   screen_starts, screen_ends, pipeVars>>

\* line 272: screens = detect_screen_boundaries(img_array)
Detected ==
    /\ pc = "return"
    /\ wide = <<>>
    /\ screens' = detected
    /\ idx' = 1
    /\ pc' = "split"
    /\ UNCHANGED <<img, reg, min_screen_width, wide, callVars,
                   sub_screens, final_screens, crops>>

\* the slices put in front of the list in place of its end
ExtendFront(final, sub) == sub \o final

\* final_screens.extend(sub_screens) (line 286)
Extend(final, sub) == final \o sub

\* lines 287-288: a screen at most 450 wide is kept
KeepScreen ==
    /\ pc = "split"
    /\ idx <= Len(screens)
    /\ screens[idx][3] - screens[idx][1] <= MaxWidth
    /\ final_screens' = Append(final_screens, screens[idx])
    /\ idx' = idx + 1
    /\ UNCHANGED <<img, pc, reg, min_screen_width, wide, callVars,
                   screens, sub_screens, crops>>

\* lines 283-286 and 171-191: a screen wider than 1000 is force split
SplitForced ==
    /\ pc = "split"
    /\ idx <= Len(screens)
    /\ screens[idx][3] - screens[idx][1] > MaxWidth
    /\ screens[idx][3] - screens[idx][1] > ForceWidth
    /\ \E got \in {ForceSplit(screens[idx])} :
          /\ sub_screens' = got
          /\ final_screens' = Extend(final_screens, got)
    /\ idx' = idx + 1
    /\ UNCHANGED <<img, pc, reg, min_screen_width, wide, callVars,
                   screens, crops>>

\* lines 283-285 and 193-197: split_wide_screen calls
\* detect_screen_boundaries on the region of a screen 451 to 1000 wide
SplitCall ==
    /\ pc = "split"
    /\ idx <= Len(screens)
    /\ screens[idx][3] - screens[idx][1] > MaxWidth
    /\ screens[idx][3] - screens[idx][1] <= ForceWidth
    /\ wide' = screens[idx]
    /\ reg' = RegionOf(screens[idx])
    /\ min_screen_width' = MinSliceWidth
    /\ is_gap' = NoMask
    /\ is_gap_smoothed' = NoMask
    /\ screen_starts' = <<>>
    /\ screen_ends' = <<>>
    /\ detected' = <<>>
    /\ pc' = "profile"
    /\ UNCHANGED <<img, pipeVars>>

\* lines 199-251 and 286: split_wide_screen returns, its result replaces
\* the wide screen
SplitReturn ==
    /\ pc = "return"
    /\ wide # <<>>
    /\ \E got \in {SplitResult(wide, detected, MaxWidth)} :
          /\ sub_screens' = got
          /\ final_screens' = Extend(final_screens, got)
    /\ idx' = idx + 1
    /\ wide' = <<>>
    /\ pc' = "split"
    /\ UNCHANGED <<img, reg, min_screen_width, callVars, screens, crops>>

\* the end of the loop of line 278
SplitDone ==
    /\ pc = "split"
    /\ idx > Len(screens)
    /\ pc' = "crop"
    /\ idx' = 1
    /\ UNCHANGED <<img, reg, min_screen_width, wide, callVars,
                   screens, sub_screens, final_screens, crops>>

\* lines 296-310: one screen is padded, clamped and cropped
Crop ==
    /\ pc = "crop"
    /\ idx <= Len(final_screens)
    /\ crops' = Append(crops, Pad(final_screens[idx], img))
    /\ idx' = idx + 1
    /\ UNCHANGED <<img, pc, reg, min_screen_width, wide, callVars,
                   screens, sub_screens, final_screens>>

\* line 312: return len(final_screens)
Finish ==
    /\ pc = "crop"
    /\ idx > Len(final_screens)
    /\ pc' = "done"
    /\ UNCHANGED <<img, reg, min_screen_width, wide, callVars, pipeVars>>

Next ==
    \/ Profile \/ Smoothing \/ NoTransitions \/ Transitions \/ Pair
    \/ Fallback \/ Detected \/ KeepScreen \/ SplitForced \/ SplitCall
    \/ SplitReturn \/ SplitDone \/ Crop \/ Finish

Spec == Init /\ [][Next]_vars

-----------------------------------------------------------------------------
(* The transitions and the edge handling, on the smoothed mask of every    *)
(* raw gap mask of at most MaxMaskLen columns                              *)

MaxMaskLen == 13

MaxRuns == 4

RunLengths == {1, 4, 5, 9, 10, 12}

RECURSIVE SumRuns(_, _)
\* total length of the first k runs
SumRuns(runs, k) == IF k = 0 THEN 0 ELSE SumRuns(runs, k - 1) + runs[k]

\* the mask whose runs have the given lengths, gap and not gap in turn,
\* the first run gap iff first
RunMask(runs, first) ==
    [x \in 0..(SumRuns(runs, Len(runs)) - 1) |->
        LET k == CHOOSE j \in 1..Len(runs) :
                    SumRuns(runs, j - 1) <= x /\ x < SumRuns(runs, j)
        IN  (k % 2 = 1) = first]

\* every mask of at most MaxMaskLen columns, and every mask of at most
\* MaxRuns runs of the lengths RunLengths
RawMasks ==
    UNION {[0..(n - 1) -> BOOLEAN] : n \in 1..MaxMaskLen}
    \cup {RunMask(runs, first) :
            runs \in UNION {[1..k -> RunLengths] : k \in 1..MaxRuns},
            first \in BOOLEAN}

InitT ==
    /\ is_gap \in RawMasks
    /\ reg = <<0, 0, Cardinality(DOMAIN is_gap), 1>>
    /\ img = Uniform("white", 1, 1)
    /\ pc = "smooth"
    /\ min_screen_width = DefaultMinScreenWidth
    /\ wide = <<>>
    /\ is_gap_smoothed = NoMask
    /\ screen_starts = <<>>
    /\ screen_ends = <<>>
    /\ detected = <<>>
    /\ NoPipe

NextT == Smoothing \/ NoTransitions \/ Transitions

SpecT == InitT /\ [][NextT]_vars

-----------------------------------------------------------------------------
(* detect_screens_by_aspect_ratio on a grid of image sizes                 *)

MaxWidthSteps == 24

MaxHeightSteps == 24

FallbackWidths == {100 * i : i \in 1..MaxWidthSteps} \cup {1140}

FallbackHeights == {50 * i : i \in 0..MaxHeightSteps}

InitF ==
    /\ \E w \in FallbackWidths, h \in FallbackHeights : reg = <<0, 0, w, h>>
    /\ min_screen_width \in {250, DefaultMinScreenWidth}
    /\ img = Uniform("white", 1, 1)
    /\ pc = "fallback"
    /\ wide = <<>>
    /\ NoCall
    /\ NoPipe

NextF == Fallback

SpecF == InitF /\ [][NextF]_vars

-----------------------------------------------------------------------------
(* Properties                                                              *)

Width(sp) == sp[3] - sp[1]

\* the pipeline has run its splitting loop to the end
SplitLoopOver == pc \in {"crop", "done"}

\* C1: after the splitting loop every span of final_screens is at most 450
\* wide, or is one of the detected screens, returned unchanged because no
\* splitting strategy produced slices.
C1_MaxWidthAfterSplit ==
    SplitLoopOver =>
        \A i \in 1..Len(final_screens) :
            \/ Width(final_screens[i]) <= MaxWidth
            \/ final_screens[i] \in SeqToSet(screens)

\* C2: every span the pipeline detects, keeps, slices or crops is at least
\* 300 wide, unless the whole image was returned as the single span
\* (0, 0, width-1, height-1).
C2_MinWidth ==
    pc \in {"split", "crop", "done"} =>
        \/ \A sp \in SeqToSet(screens) \cup SeqToSet(final_screens)
                        \cup SeqToSet(crops) :
                Width(sp) >= DefaultMinScreenWidth
        \/ /\ screens = <<WholeImage(img.w, img.h)>>
           /\ final_screens \in {<<>>, screens}
           /\ crops \in {<<>>, <<Pad(WholeImage(img.w, img.h), img)>>}

C2_Witness ==
    /\ pc = "done"
    /\ Len(crops) >= 2
    /\ sub_screens # <<>>
    /\ \E i \in 1..Len(final_screens) : Width(final_screens[i]) < 310

\* C3: every cropped span lies in the image and is not empty:
\* 0 <= x1 < x2 <= W and 0 <= y1 < y2 <= H.
C3_Validity ==
    \A i \in 1..Len(crops) :
        /\ 0 <= crops[i][1] /\ crops[i][1] < crops[i][3] /\ crops[i][3] <= img.w
        /\ 0 <= crops[i][2] /\ crops[i][2] < crops[i][4] /\ crops[i][4] <= img.h

C3_Witness ==
    /\ pc = "done"
    /\ \E i \in 1..Len(crops) :
          /\ crops[i][3] = img.w
          /\ final_screens[i][3] + Padding > img.w
    /\ \E i \in 1..Len(crops) : crops[i][1] = 0 /\ crops[i][2] = 0

\* C4: no stage returns an empty list: a call of detect_screen_boundaries
\* returns at least one span, every screen the splitting loop has handled
\* left at least one span in final_screens, and the pipeline ends with at
\* least one crop.
C4_NonEmpty ==
    /\ pc = "return" => detected # <<>>
    /\ pc \in {"split", "crop", "done"} => screens # <<>>
    /\ pc = "split" /\ wide = <<>> => Len(final_screens) >= idx - 1
    /\ SplitLoopOver => Len(final_screens) >= Len(screens)
    /\ pc = "done" => crops # <<>> /\ Len(crops) = Len(final_screens)

C4_Witness ==
    /\ pc = "done"
    /\ Len(screens) = 1
    /\ Width(screens[1]) > MaxWidth
    /\ final_screens = screens

\* C5: final_screens and the crops are in left-to-right order of x1.
C5_Ordering ==
    /\ \A i \in 1..(Len(final_screens) - 1) :
          final_screens[i][1] <= final_screens[i + 1][1]
    /\ \A i \in 1..(Len(crops) - 1) : crops[i][1] <= crops[i + 1][1]

C5_Witness ==
    /\ pc = "done"
    /\ Len(screens) >= 2
    /\ Len(crops) > Len(screens)
    /\ Width(screens[1]) > MaxWidth

\* the slice i of a partition of the width into num equal parts, the inner
\* edges moved in by 10
EqualSlice(i, width, height, num) ==
    <<(i * width) \div num + (IF i > 0 THEN 10 ELSE 0),
      0,
      ((i + 1) * width) \div num - (IF i < num - 1 THEN 10 ELSE 0),
      height - 1>>

\* the least element of a non-empty set of naturals
SetMin(S) == CHOOSE x \in S : \A y \in S : x <= y

\* the ratios passing both tests for the region and min_screen_width
Qualifying ==
    {k \in 1..Len(aspect_ratios) :
        /\ (reg[4] * aspect_ratios[k][1]) \div aspect_ratios[k][2]
              >= min_screen_width
        /\ reg[3] \div ((reg[4] * aspect_ratios[k][1]) \div aspect_ratios[k][2])
              >= 2}

\* estimated_screen_width and num_screens of ratio k for the region
EstOf(k) == (reg[4] * aspect_ratios[k][1]) \div aspect_ratios[k][2]

NumOf(k) == reg[3] \div EstOf(k)

\* slice i of ratio k, as lines 129-136 compute it
CodeSlice(k, i) ==
    <<i * EstOf(k) + (IF i > 0 THEN 10 ELSE 0),
      0,
      Min((i + 1) * EstOf(k), reg[3]) - (IF i < NumOf(k) - 1 THEN 10 ELSE 0),
      reg[4] - 1>>

\* the ratios that pass both tests and keep at least one slice
Yielding ==
    {k \in Qualifying :
        \E i \in 0..(NumOf(k) - 1) : Width(CodeSlice(k, i)) >= min_screen_width}

FallbackReturned == pc = "return" /\ wide = <<>> /\ is_gap = NoMask

\* C6 as claimed: when the fallback selects a ratio, the spans it returns
\* are slices of the partition of the width into num_screens equal parts
\* (slice i from i*width/num to (i+1)*width/num), inner edges moved in by 10.
C6_EqualPartition ==
    FallbackReturned /\ detected # <<WholeImage(reg[3], reg[4])>> =>
        \E k \in Qualifying :
            \A j \in 1..Len(detected) :
                \E i \in 0..(NumOf(k) - 1) :
                    detected[j] = EqualSlice(i, reg[3], reg[4], NumOf(k))

\* C6 as amended: the spans returned are slices of width
\* estimated_screen_width: slice i runs from i*est to min((i+1)*est, width),
\* inner edges moved in by 10, over the full height; for 1140x800 they are
\* (0, 359), (379, 728), (748, 1107), which leaves the 33 columns right of
\* 3*369 = 1107 uncovered.
C6_EstimatedWidthSlices ==
    /\ FallbackReturned /\ detected # <<WholeImage(reg[3], reg[4])>> =>
          \E k \in Qualifying :
              \A j \in 1..Len(detected) :
                  \E i \in 0..(NumOf(k) - 1) : detected[j] = CodeSlice(k, i)
    /\ FallbackReturned /\ reg = <<0, 0, 1140, 800>>
                        /\ min_screen_width = DefaultMinScreenWidth =>
          detected = <<<<0, 0, 359, 799>>, <<379, 0, 728, 799>>,
                       <<748, 0, 1107, 799>>>>

C6_Witness ==
    /\ FallbackReturned
    /\ reg = <<0, 0, 1140, 800>>
    /\ min_screen_width = DefaultMinScreenWidth
    /\ Len(detected) = 3

\* the content blocks of a Scenario A image, as <<first, last>> columns
ScenarioBlock(k) ==
    LET left == IF img.blocks[1].kind = "white" THEN img.blocks[1].w ELSE 0
    IN  <<left + 390 * (k - 1), left + 390 * (k - 1) + 349>>

ScenarioADetected == img \in ScenarioA /\ pc = "return" /\ wide = <<>>

C8_FirstQualifyingRatio ==
    FallbackReturned /\ Qualifying # {} =>
        \/ detected = <<WholeImage(reg[3], reg[4])>>
        \/ \A j \in 1..Len(detected) :
              \E i \in 0..(NumOf(SetMin(Qualifying)) - 1) :
                  detected[j] = CodeSlice(SetMin(Qualifying), i)

\* C8 as amended: the ratio taken is the first that passes both tests and
\* keeps at least one slice of min_screen_width or more; a ratio whose
\* slices are all discarded is passed over for a later one, and with no
\* such ratio the whole image is returned.
C8_FirstYieldingRatio ==
    FallbackReturned =>
        IF Yielding = {}
        THEN detected = <<WholeImage(reg[3], reg[4])>>
        ELSE /\ detected # <<>>
             /\ \A j \in 1..Len(detected) :
                   \E i \in 0..(NumOf(SetMin(Yielding)) - 1) :
                       /\ detected[j] = CodeSlice(SetMin(Yielding), i)
                       /\ Width(detected[j]) >= min_screen_width
             /\ \A i \in 0..(NumOf(SetMin(Yielding)) - 1) :
                   Width(CodeSlice(SetMin(Yielding), i)) >= min_screen_width
                       => CodeSlice(SetMin(Yielding), i) \in SeqToSet(detected)

C8_Witness ==
    /\ FallbackReturned
    /\ Yielding # {}
    /\ SetMin(Qualifying) < SetMin(Yielding)

\* C9 as claimed: no two consecutive crops share a column:
\* x2(i) <= x1(i+1).
C9_NoOverlap ==
    \A i \in 1..(Len(crops) - 1) : crops[i][3] <= crops[i + 1][1]

\* C9 as amended: consecutive spans of final_screens are at least 2 columns
\* apart, so that consecutive crops overlap by at most 2 columns, and do
\* not overlap when the spans are 4 or more columns apart.
C9_OverlapAtMostTwo ==
    /\ \A i \in 1..(Len(final_screens) - 1) :
          final_screens[i + 1][1] - final_screens[i][3] >= 2
    /\ \A i \in 1..(Len(crops) - 1) :
          /\ crops[i][3] <= crops[i + 1][1] + 2
          /\ final_screens[i + 1][1] - final_screens[i][3] >= 4
                => crops[i][3] <= crops[i + 1][1]

C9_Witness ==
    /\ pc = "done"
    /\ \E i \in 1..(Len(crops) - 1) : crops[i][3] = crops[i + 1][1] + 2

\* C10: after the edge handling there are as many starts as ends, each
\* pair is a maximal run of non-gap columns of the smoothed mask, the runs
\* are in left-to-right order, and every non-gap column is in one of them.
C10_PairingWellFormed ==
    pc = "pair" =>
        /\ Len(screen_starts) = Len(screen_ends)
        /\ \A k \in 1..Min(Len(screen_starts), Len(screen_ends)) :
              /\ screen_starts[k] <= screen_ends[k]
              /\ \A x \in screen_starts[k]..screen_ends[k] : ~is_gap_smoothed[x]
              /\ screen_starts[k] = 0 \/ is_gap_smoothed[screen_starts[k] - 1]
              /\ screen_ends[k] = reg[3] - 1 \/ is_gap_smoothed[screen_ends[k] + 1]
              /\ k < Len(screen_starts) => screen_ends[k] < screen_starts[k + 1]
        /\ \A x \in 0..(reg[3] - 1) :
              ~is_gap_smoothed[x] =>
                  \E k \in 1..Min(Len(screen_starts), Len(screen_ends)) :
                      screen_starts[k] <= x /\ x <= screen_ends[k]

C10_Witness ==
    /\ pc = "pair"
    /\ Len(screen_starts) >= 3
    /\ ~is_gap_smoothed[0]
    /\ ~is_gap_smoothed[reg[3] - 1]
    /\ \E k \in 1..(Len(screen_starts) - 1) :
          screen_starts[k + 1] = screen_ends[k] + 2

====
